---- MODULE Spec2Model ----
(***************************************************************************)
(* Model of the blog server of src/index.js.                               *)
(*                                                                         *)
(* The file holds two Express applications that work on the same MongoDB   *)
(* database: the one of lines 12-398 (application 1) and the one of lines  *)
(* 410-1211 (application 2).  Each registers its own routes and its own    *)
(* verifyFirebaseToken.  Inside one application a method+path registered   *)
(* twice is served by the first registration (Express runs the layers in   *)
(* registration order and these handlers never call next()), so the        *)
(* POST /blogs of lines 797-826 is never run and is not an action here.    *)
(*                                                                         *)
(* The store is the database: blogs, users, subscribers, contacts and      *)
(* activities.  A field a document lacks reads as Undef; a value that is   *)
(* undefined when a document is written is stored as Null (the driver's    *)
(* BSON serialisation), which Bson models.  likes, likedUsers and reviews  *)
(* are only ever read through `|| 0` / `|| []` and written through $inc /  *)
(* $push, for which a missing field and 0 / [] behave alike, so a missing  *)
(* field is kept as 0 / <<>>.  The caller-supplied text fields (title,     *)
(* content, category, image) are handled alike by every handler; title     *)
(* stands for them.                                                        *)
(***************************************************************************)
EXTENDS Integers, Sequences, FiniteSets, TLC

\* ---------------------------------------------------------------- bounds
MaxBlogs == 2       \* posts ever created (identities 1..MaxBlogs)
MaxReqs  == 3       \* requests made in one behaviour
MaxProcs == 2       \* requests in flight at once
MaxDocs  == 2       \* users, subscribers and contacts ever inserted, each

\* ---------------------------------------------------------------- values
Undef == "undefined"
Null  == "null"

Apps == {1, 2}

BadId == 0                       \* a malformed identity (ObjectId.isValid fails)
BlogIds == 1..MaxBlogs           \* the well-formed identities
ReqIds == BlogIds \cup {BadId}

Range(s) == {s[i] : i \in DOMAIN s}

LikeUsers == {"x", "y"}          \* the userId of a like request's body

\* identities the identity provider issues tokens for
U1 == [uid |-> "u1", email |-> "e1"]
U2 == [uid |-> "u2", email |-> "e2"]

NoHeader == [scheme |-> "none", token |-> "none"]
Headers ==
  {NoHeader,
   [scheme |-> "Bearer", token |-> "t1"],
   [scheme |-> "Bearer", token |-> "t2"],
   [scheme |-> "Bearer", token |-> "bad"]}

\* admin.auth().verifyIdToken: the claims of a valid token; it rejects the rest
ValidTokens == {"t1", "t2"}
verifyIdToken(token) == IF token = "t1" THEN U1 ELSE U2

DevUser == [uid |-> "devUser", email |-> Undef]
NoUser  == [uid |-> Undef, email |-> Undef]

\* undefined is written to the database as null
Bson(v) == IF v = Undef THEN Null ELSE v

NoAuthor == [uid |-> Undef, email |-> Undef]    \* a document without author

\* request bodies of POST/PATCH/PUT /blogs (JSON objects: a key is there or not)
Fields == {"title", "author", "createdAt", "likes", "likedUsers", "reviews"}
Bodies ==
  {[title |-> "A"],
   [title |-> "B", author |-> U2, createdAt |-> 0],
   [likes |-> 2, likedUsers |-> <<>>, reviews |-> <<>>]}

\* the document an insert of an object without any of the fields stores
EmptyDoc ==
  [title |-> Undef, author |-> NoAuthor, createdAt |-> 0, likes |-> 0,
   likedUsers |-> <<>>, reviews |-> <<>>]

\* {...doc, ...body} and updateOne(.., {$set: body}): body's keys replace doc's
Merge(doc, body) ==
  [f \in Fields |-> IF f \in DOMAIN body THEN body[f] ELSE doc[f]]

VARIABLES
  production,   \* process.env.NODE_ENV === "production"
  blogs,        \* blogsCollection: identity -> document
  nextId,       \* the identity the next insertOne assigns
  clock,        \* new Date()
  activities,   \* activitiesCollection, in insertion order
  origin,       \* history: how each post was created
  resp,         \* the last request answered and its response
  reqs,         \* requests made so far
  calls,        \* the handlers that wait for their second database call
  likeOk,       \* history: successful like responses per <<post, userId>>
  kept,         \* history: per post, the reviews it was created with and those
                \* a review request reported added, less those one reported removed
  lastAdd,      \* history: the last review added and the list before it
  users,        \* usersCollection: identity -> document
  subscribers,  \* subscribersCollection: identity -> document
  contacts,     \* contactsCollection: identity -> document
  ids           \* the identities the next insertOne assigns there

vars == <<production, blogs, nextId, clock, activities, origin, resp, reqs,
          calls, likeOk, lastAdd, kept, users, subscribers, contacts, ids>>

\* what no blog handler touches
elsewhere == <<production, calls, users, subscribers, contacts, ids>>

Procs == 1..MaxProcs
Idle == [pc |-> "idle"]
NoAdd == [id |-> BadId, rid |-> Undef, before |-> <<>>]

NoResp ==
  [op |-> "none", app |-> 0, status |-> 0, id |-> BadId, header |-> NoHeader,
   gated |-> FALSE, ran |-> FALSE, user |-> NoUser, ret |-> 0, data |-> <<>>]

Init ==
  /\ production \in BOOLEAN
  /\ blogs = <<>>
  /\ nextId = 1
  /\ clock = 1
  /\ activities = <<>>
  /\ origin = <<>>
  /\ resp = NoResp
  /\ reqs = 0
  /\ calls = [p \in Procs |-> Idle]
  /\ likeOk = [k \in BlogIds \X LikeUsers |-> 0]
  /\ lastAdd = NoAdd
  /\ kept = <<>>
  /\ users = <<>>
  /\ subscribers = <<>>
  /\ contacts = <<>>
  /\ ids = [users |-> 1, subscribers |-> 1, contacts |-> 1]

\* ---------------------------------------------------------- Identity Gate
\* application 1 (lines 57-75) and application 2 (lines 512-536)
\* result: ok = next() was called with req.user = user; otherwise status
GateV1(header) ==
  LET token == IF header.scheme = "Bearer" THEN header.token ELSE Undef
  IN  IF token = Undef
        THEN [ok |-> FALSE, status |-> 401, user |-> NoUser]
      ELSE IF token \in ValidTokens
        THEN [ok |-> TRUE, status |-> 0, user |-> verifyIdToken(token)]
      ELSE [ok |-> FALSE, status |-> 401, user |-> NoUser]

\* mutant: the placeholder identity is handed out in production too
GateV2NoModeCheck(header, prod) ==
  IF header = NoHeader
    THEN [ok |-> TRUE, status |-> 0, user |-> DevUser]
  ELSE IF header.token \in ValidTokens
    THEN [ok |-> TRUE, status |-> 0, user |-> verifyIdToken(header.token)]
  ELSE [ok |-> FALSE, status |-> 401, user |-> NoUser]

GateV2(header, prod) ==
  IF header = NoHeader
    THEN IF ~prod
           THEN [ok |-> TRUE, status |-> 0, user |-> DevUser]
           ELSE [ok |-> FALSE, status |-> 401, user |-> NoUser]
  ELSE IF header.token \in ValidTokens
    THEN [ok |-> TRUE, status |-> 0, user |-> verifyIdToken(header.token)]
  ELSE [ok |-> FALSE, status |-> 401, user |-> NoUser]

verifyFirebaseToken(app, header, prod) ==
  IF app = 1 THEN GateV1(header) ELSE GateV2(header, prod)

Open == [ok |-> TRUE, status |-> 0, user |-> NoUser]   \* a route with no gate

\* what is recorded of a request: its route, credential and response; gated =
\* the route has the gate, ran = the route handler was run, user = req.user
Answer(op, app, status, id, header, gate, ret) ==
  [op |-> op, app |-> app, status |-> status, id |-> id, header |-> header,
   gated |-> gate # Open, ran |-> gate.ok, user |-> gate.user, ret |-> ret,
   data |-> <<>>]

Counted == /\ reqs < MaxReqs
           /\ reqs' = reqs + 1

NoHdr(op, app, status, id, ret) == Answer(op, app, status, id, NoHeader, Open, ret)

\* ------------------------------------------------------------ Audit Log
\* mutant: the new activity takes the place of the log
logActivityOverwrite(log, user, type, blogId, now) ==
  <<[user |-> [uid   |-> IF user.uid = Undef THEN "guest" ELSE user.uid,
               email |-> IF user.email = Undef THEN "unknown" ELSE user.email],
     type |-> type, message |-> user.email, blogId |-> blogId,
     timestamp |-> now]>>

\* logActivity (lines 496-510); message stands for the e-mail the text embeds
logActivity(log, user, type, blogId, now) ==
  Append(log,
         [user |-> [uid   |-> IF user.uid = Undef THEN "guest" ELSE user.uid,
                    email |-> IF user.email = Undef THEN "unknown" ELSE user.email],
          type |-> type, message |-> user.email, blogId |-> blogId,
          timestamp |-> now])

\* .sort({timestamp: -1}) of line 1023: latest first
RECURSIVE SortDesc(_)
SortDesc(log) ==
  IF log = <<>> THEN <<>>
  ELSE LET i == CHOOSE k \in DOMAIN log :
                  \A j \in DOMAIN log :
                    \/ log[j].timestamp < log[k].timestamp
                    \/ (log[j].timestamp = log[k].timestamp /\ k <= j)
       IN  <<log[i]>> \o SortDesc(SubSeq(log, 1, i - 1) \o SubSeq(log, i + 1, Len(log)))

\* GET /activities (lines 1016-1032): the caller's activities, latest first
GetActivities(header) ==
  LET g == verifyFirebaseToken(2, header, production)
  IN  /\ Counted
      /\ IF ~g.ok
           THEN resp' = Answer("GET /activities", 2, g.status, BadId, header, g, 0)
         ELSE resp' = [Answer("GET /activities", 2, 200, BadId, header, g, 0)
                         EXCEPT !.data =
                           SortDesc(SelectSeq(activities,
                                              LAMBDA a : a.user.uid = g.user.uid))]
      /\ UNCHANGED <<blogs, nextId, clock, activities, origin, likeOk, lastAdd,
                     kept, production, calls, users, subscribers, contacts, ids>>

\* -------------------------------------------------------- Blog Repository
Put(store, id, doc) == (id :> doc) @@ store
Drop(store, id) == [i \in DOMAIN store \ {id} |-> store[i]]

\* the document POST /blogs of application 2 inserts (lines 772-779)
NewBlog(body, user, now) ==
  Merge(Merge(EmptyDoc, body),
        [author |-> [uid |-> Bson(user.uid), email |-> Bson(user.email)],
         createdAt |-> now])

\* the document POST /blogs of application 1 inserts (lines 210-213)
NewBlogV1(body, now) == Merge(Merge(EmptyDoc, body), [createdAt |-> now])

\* POST /blogs, application 2 (lines 765-794)
PostBlog(header, body) ==
  LET g == verifyFirebaseToken(2, header, production)
      doc == NewBlog(body, g.user, clock)
  IN  /\ Counted
      /\ IF g.ok
           THEN /\ nextId <= MaxBlogs
                /\ blogs' = Put(blogs, nextId, doc)
                /\ nextId' = nextId + 1
                /\ activities' = logActivity(activities, g.user, "CREATE", nextId, clock + 1)
                /\ clock' = clock + 2
                /\ origin' = Put(origin, nextId,
                                 [gated |-> TRUE, user |-> g.user,
                                  author |-> doc.author, createdAt |-> doc.createdAt])
                /\ kept' = Put(kept, nextId, doc.reviews)
                /\ resp' = Answer("POST /blogs", 2, 201, nextId, header, g, 0)
           ELSE /\ resp' = Answer("POST /blogs", 2, g.status, BadId, header, g, 0)
                /\ UNCHANGED <<blogs, nextId, activities, clock, origin, kept>>
      /\ UNCHANGED <<likeOk, lastAdd, elsewhere>>

\* POST /blogs, application 1 (lines 205-220): no gate, no activity
PostBlogV1(body) ==
  LET doc == NewBlogV1(body, clock)
  IN  /\ Counted
      /\ nextId <= MaxBlogs
      /\ blogs' = Put(blogs, nextId, doc)
      /\ nextId' = nextId + 1
      /\ clock' = clock + 1
      /\ origin' = Put(origin, nextId,
                       [gated |-> FALSE, user |-> NoUser,
                        author |-> doc.author, createdAt |-> doc.createdAt])
      /\ kept' = Put(kept, nextId, doc.reviews)
      /\ resp' = NoHdr("POST /blogs", 1, 201, nextId, 0)
      /\ UNCHANGED <<activities, likeOk, lastAdd, elsewhere>>

\* the $set of PATCH /blogs/:id of application 1 (lines 156, 163): the four text
\* fields, each undefined (stored as null) when the body lacks it
SetV1(body) ==
  [title |-> Bson(IF "title" \in DOMAIN body THEN body.title ELSE Undef)]

\* PATCH /blogs/:id, application 1 (lines 154-177): no gate
PatchBlogV1(id, body) ==
  /\ Counted
  /\ IF id = BadId
       THEN /\ resp' = NoHdr("PATCH /blogs/:id", 1, 500, id, 0)
            /\ UNCHANGED blogs
     ELSE IF id \notin DOMAIN blogs          \* matchedCount === 0
       THEN /\ resp' = NoHdr("PATCH /blogs/:id", 1, 404, id, 0)
            /\ UNCHANGED blogs
     ELSE /\ blogs' = [blogs EXCEPT ![id] = Merge(@, SetV1(body))]
          /\ resp' = NoHdr("PATCH /blogs/:id", 1, 200, id, 0)
  /\ UNCHANGED <<nextId, clock, activities, origin, likeOk, lastAdd, kept, elsewhere>>

\* PATCH /blogs/:id, application 2 (lines 743-763): gate, no ownership check
PatchBlog(header, id, body) ==
  LET g == verifyFirebaseToken(2, header, production)
  IN  /\ Counted
      /\ IF ~g.ok
           THEN /\ resp' = Answer("PATCH /blogs/:id", 2, g.status, id, header, g, 0)
                /\ UNCHANGED blogs
         ELSE IF id = BadId
           THEN /\ resp' = Answer("PATCH /blogs/:id", 2, 500, id, header, g, 0)
                /\ UNCHANGED blogs
         ELSE IF id \notin DOMAIN blogs \/ Merge(blogs[id], body) = blogs[id]
           THEN \* modifiedCount === 0
                /\ resp' = Answer("PATCH /blogs/:id", 2, 404, id, header, g, 0)
                /\ UNCHANGED blogs
         ELSE /\ blogs' = [blogs EXCEPT ![id] = Merge(@, body)]
              /\ resp' = Answer("PATCH /blogs/:id", 2, 200, id, header, g, 0)
      /\ UNCHANGED <<nextId, clock, activities, origin, likeOk, lastAdd, kept, elsewhere>>

\* blog.author?.email !== req.user.email (lines 232, 874), negated
Owns(blog, user) == blog.author.email = user.email

\* PUT /blogs/:id, both applications (lines 223-245, 865-883)
PutBlog(app, header, id, body) ==
  LET g == verifyFirebaseToken(app, header, production)
  IN  /\ Counted
      /\ IF ~g.ok
           THEN /\ resp' = Answer("PUT /blogs/:id", app, g.status, id, header, g, 0)
                /\ UNCHANGED blogs
         ELSE IF id = BadId
           THEN /\ resp' = Answer("PUT /blogs/:id", app, 500, id, header, g, 0)
                /\ UNCHANGED blogs
         ELSE IF id \notin DOMAIN blogs
           THEN /\ resp' = Answer("PUT /blogs/:id", app, 404, id, header, g, 0)
                /\ UNCHANGED blogs
         ELSE IF ~Owns(blogs[id], g.user)
           THEN /\ resp' = Answer("PUT /blogs/:id", app, 403, id, header, g, 0)
                /\ UNCHANGED blogs
         ELSE /\ blogs' = [blogs EXCEPT ![id] = Merge(@, body)]
              /\ resp' = Answer("PUT /blogs/:id", app, 200, id, header, g, 0)
      /\ UNCHANGED <<nextId, clock, activities, origin, likeOk, lastAdd, kept, elsewhere>>

\* DELETE /blogs/:id, both applications (lines 248-261, 829-849): the gate and
\* no ownership check; only application 2 tests ObjectId.isValid
DeleteBlog(app, header, id) ==
  LET g == verifyFirebaseToken(app, header, production)
  IN  /\ Counted
      /\ IF ~g.ok
           THEN /\ resp' = Answer("DELETE /blogs/:id", app, g.status, id, header, g, 0)
                /\ UNCHANGED blogs
         ELSE IF id = BadId
           THEN /\ resp' = Answer("DELETE /blogs/:id", app,
                                  IF app = 2 THEN 400 ELSE 500, id, header, g, 0)
                /\ UNCHANGED blogs
         ELSE IF id \notin DOMAIN blogs          \* deletedCount === 0
           THEN /\ resp' = Answer("DELETE /blogs/:id", app, 404, id, header, g, 0)
                /\ UNCHANGED blogs
         ELSE /\ blogs' = Drop(blogs, id)
              /\ resp' = Answer("DELETE /blogs/:id", app, 200, id, header, g, 0)
      /\ UNCHANGED <<nextId, clock, activities, origin, likeOk, lastAdd, kept, elsewhere>>

\* ------------------------------------------------------------------ likes
includes(arr, x) == x \in Range(arr)

\* mutant: the test for a repeated like is left out
AlreadyLikedNoTest(blog, userId) == FALSE

\* likedUsers.includes(userId) of lines 291-292, 906-907
AlreadyLiked(blog, userId) == includes(blog.likedUsers, userId)

\* {$inc: {likes: 1}, $push: {likedUsers: userId}} (lines 296, 911)
LikeUpdate(blog, userId) ==
  [blog EXCEPT !.likes = @ + 1, !.likedUsers = Append(@, userId)]

\* POST /blogs/:id/like (lines 282-304 and 898-919, the same text in both
\* applications), first half: findOne and the tests on what it returned
LikeRead(p, id, userId) ==
  /\ Counted
  /\ calls[p] = Idle
  /\ IF id = BadId
       THEN /\ resp' = NoHdr("POST /blogs/:id/like", 2, 500, id, 0)
            /\ UNCHANGED calls
     ELSE IF id \notin DOMAIN blogs
       THEN /\ resp' = NoHdr("POST /blogs/:id/like", 2, 404, id, 0)
            /\ UNCHANGED calls
     ELSE IF AlreadyLiked(blogs[id], userId)
       THEN /\ resp' = NoHdr("POST /blogs/:id/like", 2, 400, id, 0)
            /\ UNCHANGED calls
     ELSE /\ calls' = [calls EXCEPT ![p] =
                         [pc |-> "like", id |-> id, userId |-> userId,
                          blog |-> blogs[id]]]
          /\ UNCHANGED resp
  /\ UNCHANGED <<blogs, nextId, clock, activities, origin, likeOk, lastAdd, kept,
                 production, users, subscribers, contacts, ids>>

\* second half: updateOne (which changes nothing when the post is gone) and the
\* response, computed from the document findOne returned
LikeWrite(p) ==
  LET c == calls[p]
  IN  /\ c.pc = "like"
      /\ blogs' = IF c.id \in DOMAIN blogs
                    THEN [blogs EXCEPT ![c.id] = LikeUpdate(@, c.userId)]
                    ELSE blogs
      /\ resp' = NoHdr("POST /blogs/:id/like", 2, 200, c.id, c.blog.likes + 1)
      /\ likeOk' = [likeOk EXCEPT ![<<c.id, c.userId>>] = @ + 1]
      /\ calls' = [calls EXCEPT ![p] = Idle]
      /\ UNCHANGED <<nextId, clock, activities, origin, lastAdd, kept, reqs,
                     production, users, subscribers, contacts, ids>>

\* ---------------------------------------------------------------- reviews
\* request bodies of POST /blogs/:id/reviews: rid is the body's _id (Undef when
\* the body has none), comment stands for the other fields
ReviewBodies ==
  {[rid |-> Undef, comment |-> "nice"],
   [rid |-> "r1", comment |-> "nice"],
   [rid |-> "r2", comment |-> "fine"]}

\* the :commentId of DELETE /:blogId/:commentId; Undef is the text "undefined",
\* all a caller can name of a review that has no _id
CommentIds == {"r1", "r2", Undef}

\* {$push: {reviews: review}}
PushReview(blog, review) == [blog EXCEPT !.reviews = Append(@, review)]

\* POST /blogs/:id/reviews, application 2 (lines 922-937): the body is pushed as
\* it is and the result of updateOne is not looked at
AddReview(id, review) ==
  /\ Counted
  /\ IF id = BadId
       THEN /\ resp' = NoHdr("POST /blogs/:id/reviews", 2, 400, id, 0)
            /\ UNCHANGED <<blogs, lastAdd, kept>>
     ELSE /\ blogs' = IF id \in DOMAIN blogs
                        THEN [blogs EXCEPT ![id] = PushReview(@, review)]
                        ELSE blogs
          /\ kept' = IF id \in DOMAIN blogs
                       THEN [kept EXCEPT ![id] = Append(@, review)]
                       ELSE kept
          /\ lastAdd' = [id |-> id, rid |-> review.rid,
                         before |-> IF id \in DOMAIN blogs
                                      THEN blogs[id].reviews ELSE <<>>]
          /\ resp' = NoHdr("POST /blogs/:id/reviews", 2, 200, id, 0)
  /\ UNCHANGED <<nextId, clock, activities, origin, likeOk, elsewhere>>

\* the review POST /blogs/:id/reviews of application 1 pushes (lines 311, 315):
\* userId, userName, comment and date of the body, never its _id
ReviewV1(body) == [rid |-> Undef, comment |-> body.comment]

\* POST /blogs/:id/reviews, application 1 (lines 307-326)
AddReviewV1(id, body) ==
  /\ Counted
  /\ IF id = BadId
       THEN /\ resp' = NoHdr("POST /blogs/:id/reviews", 1, 500, id, 0)
            /\ UNCHANGED <<blogs, lastAdd, kept>>
     ELSE IF id \notin DOMAIN blogs          \* modifiedCount === 0
       THEN /\ resp' = NoHdr("POST /blogs/:id/reviews", 1, 404, id, 0)
            /\ UNCHANGED <<blogs, lastAdd, kept>>
     ELSE /\ blogs' = [blogs EXCEPT ![id] = PushReview(@, ReviewV1(body))]
          /\ kept' = [kept EXCEPT ![id] = Append(@, ReviewV1(body))]
          /\ lastAdd' = [id |-> id, rid |-> Undef, before |-> blogs[id].reviews]
          /\ resp' = [NoHdr("POST /blogs/:id/reviews", 1, 200, id, 0)
                        EXCEPT !.data = blogs'[id].reviews]
  /\ UNCHANGED <<nextId, clock, activities, origin, likeOk, elsewhere>>

\* r._id.toString() throws a TypeError for a review without _id (line 976)
FilterThrows(reviews) == \E i \in DOMAIN reviews : reviews[i].rid = Undef

KeepReview(r, commentId) == r.rid # commentId

\* (blog.reviews || []).filter(r => r._id.toString() !== commentId)
FilterReviews(reviews, commentId) ==
  SelectSeq(reviews, LAMBDA r : KeepReview(r, commentId))

\* DELETE /:blogId/:commentId, application 2 (lines 963-993), answered without
\* interleaving
RemoveReview(blogId, commentId) ==
  /\ Counted
  /\ IF blogId = BadId
       THEN /\ resp' = NoHdr("DELETE /:blogId/:commentId", 2, 500, blogId, 0)
            /\ UNCHANGED <<blogs, kept>>
     ELSE IF blogId \notin DOMAIN blogs
       THEN /\ resp' = NoHdr("DELETE /:blogId/:commentId", 2, 404, blogId, 0)
            /\ UNCHANGED <<blogs, kept>>
     ELSE IF FilterThrows(blogs[blogId].reviews)
       THEN /\ resp' = NoHdr("DELETE /:blogId/:commentId", 2, 500, blogId, 0)
            /\ UNCHANGED <<blogs, kept>>
     ELSE IF Len(FilterReviews(blogs[blogId].reviews, commentId))
               = Len(blogs[blogId].reviews)
       THEN /\ resp' = NoHdr("DELETE /:blogId/:commentId", 2, 404, blogId, 0)
            /\ UNCHANGED <<blogs, kept>>
     ELSE /\ blogs' = [blogs EXCEPT ![blogId].reviews = FilterReviews(@, commentId)]
          /\ kept' = [kept EXCEPT ![blogId] = FilterReviews(@, commentId)]
          /\ resp' = NoHdr("DELETE /:blogId/:commentId", 2, 200, blogId, 0)
  /\ UNCHANGED <<nextId, clock, activities, origin, likeOk, lastAdd, elsewhere>>

\* the same handler with its two database calls apart. First half: findOne
\* (line 969), the filter (lines 975-977) and the test of line 979
RemoveRead(p, blogId, commentId) ==
  /\ Counted
  /\ calls[p] = Idle
  /\ IF blogId = BadId
       THEN /\ resp' = NoHdr("DELETE /:blogId/:commentId", 2, 500, blogId, 0)
            /\ UNCHANGED calls
     ELSE IF blogId \notin DOMAIN blogs
       THEN /\ resp' = NoHdr("DELETE /:blogId/:commentId", 2, 404, blogId, 0)
            /\ UNCHANGED calls
     ELSE IF FilterThrows(blogs[blogId].reviews)
       THEN /\ resp' = NoHdr("DELETE /:blogId/:commentId", 2, 500, blogId, 0)
            /\ UNCHANGED calls
     ELSE IF Len(FilterReviews(blogs[blogId].reviews, commentId))
               = Len(blogs[blogId].reviews)
       THEN /\ resp' = NoHdr("DELETE /:blogId/:commentId", 2, 404, blogId, 0)
            /\ UNCHANGED calls
     ELSE /\ calls' = [calls EXCEPT ![p] =
                         [pc |-> "remove", id |-> blogId, commentId |-> commentId,
                          updatedReviews |->
                            FilterReviews(blogs[blogId].reviews, commentId)]]
          /\ UNCHANGED resp
  /\ UNCHANGED <<blogs, nextId, clock, activities, origin, likeOk, lastAdd, kept,
                 production, users, subscribers, contacts, ids>>

\* second half: updateOne with {$set: {reviews: updatedReviews}} (lines
\* 983-986), the list filtered from what findOne returned, and the 200
RemoveWrite(p) ==
  LET c == calls[p]
  IN  /\ c.pc = "remove"
      /\ blogs' = IF c.id \in DOMAIN blogs
                    THEN [blogs EXCEPT ![c.id].reviews = c.updatedReviews]
                    ELSE blogs
      /\ kept' = IF c.id \in DOMAIN kept
                   THEN [kept EXCEPT ![c.id] = FilterReviews(@, c.commentId)]
                   ELSE kept
      /\ resp' = NoHdr("DELETE /:blogId/:commentId", 2, 200, c.id, 0)
      /\ calls' = [calls EXCEPT ![p] = Idle]
      /\ UNCHANGED <<nextId, clock, activities, origin, likeOk, lastAdd, reqs,
                     production, users, subscribers, contacts, ids>>


\* ------------------------------------- users, subscribers and contacts
\* what no handler of this part touches
blogPart == <<blogs, nextId, clock, activities, origin, likeOk, lastAdd, kept,
              production, calls>>

DocIds == 1..MaxDocs
ReqDocIds == DocIds \cup {BadId}

\* request bodies of POST /users: uid, email and, in the first, role
UserBodies ==
  {[uid |-> "u1", email |-> "e1", role |-> "admin"],
   [uid |-> "u2", email |-> "e2"]}

Field(body, f) == IF f \in DOMAIN body THEN body[f] ELSE Undef

\* POST /users, application 1 (lines 94-118)
PostUser(body) ==
  /\ Counted
  /\ IF \E i \in DOMAIN users : users[i].uid = Bson(Field(body, "uid"))
       THEN /\ resp' = NoHdr("POST /users", 1, 400, BadId, 0)
            /\ UNCHANGED <<users, ids>>
     ELSE /\ ids.users <= MaxDocs
          /\ users' = Put(users, ids.users,
                          [uid   |-> Bson(Field(body, "uid")),
                           email |-> Bson(Field(body, "email")),
                           role  |-> IF Field(body, "role") = Undef
                                       THEN "user" ELSE body.role])
          /\ ids' = [ids EXCEPT !.users = @ + 1]
          /\ resp' = NoHdr("POST /users", 1, 201, ids.users, 0)
  /\ UNCHANGED <<subscribers, contacts, blogPart>>

SubEmails == {"s1", "s2"}

\* POST /subscribers (lines 1118-1169), answered without interleaving
PostSubscriber(email) ==
  /\ Counted
  /\ IF email = Undef
       THEN /\ resp' = NoHdr("POST /subscribers", 2, 400, BadId, 0)
            /\ UNCHANGED <<subscribers, ids>>
     ELSE IF \E i \in DOMAIN subscribers : subscribers[i].email = email
       THEN /\ resp' = NoHdr("POST /subscribers", 2, 400, BadId, 0)
            /\ UNCHANGED <<subscribers, ids>>
     ELSE /\ ids.subscribers <= MaxDocs
          /\ subscribers' = Put(subscribers, ids.subscribers, [email |-> email])
          /\ ids' = [ids EXCEPT !.subscribers = @ + 1]
          /\ resp' = NoHdr("POST /subscribers", 2, 201, ids.subscribers, 0)
  /\ UNCHANGED <<users, contacts, blogPart>>

\* the same handler with its two database calls apart. First half: the tests
\* of the body and findOne({email}) (lines 1123-1150)
SubscribeRead(p, email) ==
  /\ Counted
  /\ calls[p] = Idle
  /\ IF email = Undef
       THEN /\ resp' = NoHdr("POST /subscribers", 2, 400, BadId, 0)
            /\ UNCHANGED calls
     ELSE IF \E i \in DOMAIN subscribers : subscribers[i].email = email
       THEN /\ resp' = NoHdr("POST /subscribers", 2, 400, BadId, 0)
            /\ UNCHANGED calls
     ELSE /\ calls' = [calls EXCEPT ![p] = [pc |-> "subscribe", email |-> email]]
          /\ UNCHANGED resp
  /\ UNCHANGED <<blogs, nextId, clock, activities, origin, likeOk, lastAdd, kept,
                 production, users, subscribers, contacts, ids>>

\* second half: insertOne and the 201 (lines 1153-1161)
SubscribeWrite(p) ==
  LET c == calls[p]
  IN  /\ c.pc = "subscribe"
      /\ ids.subscribers <= MaxDocs
      /\ subscribers' = Put(subscribers, ids.subscribers, [email |-> c.email])
      /\ ids' = [ids EXCEPT !.subscribers = @ + 1]
      /\ resp' = NoHdr("POST /subscribers", 2, 201, ids.subscribers, 0)
      /\ calls' = [calls EXCEPT ![p] = Idle]
      /\ UNCHANGED <<blogs, nextId, clock, activities, origin, likeOk, lastAdd,
                     kept, reqs, production, users, contacts>>

\* POST /contacts (lines 1066-1078); email stands for name, email and message
PostContact(email) ==
  /\ Counted
  /\ IF email = Undef
       THEN /\ resp' = NoHdr("POST /contacts", 2, 400, BadId, 0)
            /\ UNCHANGED <<contacts, ids>>
     ELSE /\ ids.contacts <= MaxDocs
          /\ contacts' = Put(contacts, ids.contacts, [email |-> email])
          /\ ids' = [ids EXCEPT !.contacts = @ + 1]
          /\ resp' = NoHdr("POST /contacts", 2, 201, ids.contacts, 0)
  /\ UNCHANGED <<users, subscribers, blogPart>>

\* usersCollection.findOne({email}): the identities of the documents the filter
\* matches; an undefined e-mail is sent as null
FindByEmail(coll, email) == {i \in DOMAIN coll : coll[i].email = Bson(email)}

\* mutant: any stored user record admits the caller
IsAdminAnyRole(coll, user) == FindByEmail(coll, user.email) # {}

\* !(!user || user.role !== "admin") of lines 1089, 1176, 1194; findOne returns
\* the first document that matches
IsAdmin(coll, user) ==
  LET m == FindByEmail(coll, user.email)
  IN  m # {} /\ coll[CHOOSE i \in m : \A j \in m : i <= j].role = "admin"

\* GET /subscribers (lines 1172-1186)
GetSubscribers(header) ==
  LET g == verifyFirebaseToken(2, header, production)
  IN  /\ Counted
      /\ IF ~g.ok
           THEN resp' = Answer("GET /subscribers", 2, g.status, BadId, header, g, 0)
         ELSE IF ~IsAdmin(users, g.user)
           THEN resp' = Answer("GET /subscribers", 2, 403, BadId, header, g, 0)
         ELSE resp' = [Answer("GET /subscribers", 2, 200, BadId, header, g, 0)
                         EXCEPT !.data = subscribers]
      /\ UNCHANGED <<users, subscribers, contacts, ids, blogPart>>

\* DELETE /subscribers/:id (lines 1190-1208)
DeleteSubscriber(header, id) ==
  LET g == verifyFirebaseToken(2, header, production)
  IN  /\ Counted
      /\ IF ~g.ok
           THEN /\ resp' = Answer("DELETE /subscribers/:id", 2, g.status, id, header, g, 0)
                /\ UNCHANGED subscribers
         ELSE IF ~IsAdmin(users, g.user)
           THEN /\ resp' = Answer("DELETE /subscribers/:id", 2, 403, id, header, g, 0)
                /\ UNCHANGED subscribers
         ELSE IF id = BadId
           THEN /\ resp' = Answer("DELETE /subscribers/:id", 2, 500, id, header, g, 0)
                /\ UNCHANGED subscribers
         ELSE IF id \notin DOMAIN subscribers
           THEN /\ resp' = Answer("DELETE /subscribers/:id", 2, 404, id, header, g, 0)
                /\ UNCHANGED subscribers
         ELSE /\ subscribers' = Drop(subscribers, id)
              /\ resp' = Answer("DELETE /subscribers/:id", 2, 200, id, header, g, 0)
      /\ UNCHANGED <<users, contacts, ids, blogPart>>

\* GET /contacts (lines 1081-1099)
GetContacts(header) ==
  LET g == verifyFirebaseToken(2, header, production)
  IN  /\ Counted
      /\ IF ~g.ok
           THEN resp' = Answer("GET /contacts", 2, g.status, BadId, header, g, 0)
         ELSE IF g.user.email = Undef
           THEN resp' = Answer("GET /contacts", 2, 400, BadId, header, g, 0)
         ELSE IF ~IsAdmin(users, g.user)
           THEN resp' = Answer("GET /contacts", 2, 403, BadId, header, g, 0)
         ELSE resp' = [Answer("GET /contacts", 2, 200, BadId, header, g, 0)
                         EXCEPT !.data = contacts]
      /\ UNCHANGED <<users, subscribers, contacts, ids, blogPart>>

\* DELETE /contacts/:id (lines 1102-1115): no gate and no role test
DeleteContact(id) ==
  /\ Counted
  /\ IF id = BadId
       THEN /\ resp' = NoHdr("DELETE /contacts/:id", 2, 500, id, 0)
            /\ UNCHANGED contacts
     ELSE IF id \notin DOMAIN contacts
       THEN /\ resp' = NoHdr("DELETE /contacts/:id", 2, 404, id, 0)
            /\ UNCHANGED contacts
     ELSE /\ contacts' = Drop(contacts, id)
          /\ resp' = NoHdr("DELETE /contacts/:id", 2, 200, id, 0)
  /\ UNCHANGED <<users, subscribers, ids, blogPart>>

\* ------------------------------------------------------ roles and users
\* the e-mail of a role query (?email=); Undef when the query has none
QueryEmails == {"e1", "e2", Undef}

\* mutant: an e-mail without a record resolves to "admin"
RoleOfNoRecordAdmin(coll, email) ==
  LET m == FindByEmail(coll, email)
  IN  IF m = {} THEN "admin"
      ELSE LET r == coll[CHOOSE i \in m : \A j \in m : i <= j].role
           IN  IF r \in {Undef, Null} THEN "user" ELSE r

\* findOne({email}) and user.role || "user" (lines 126, 134 and 573, 579); no
\* record gives "user" (lines 128-132, 575-577); findOne returns the first match
RoleOf(coll, email) ==
  LET m == FindByEmail(coll, email)
  IN  IF m = {} THEN "user"
      ELSE LET r == coll[CHOOSE i \in m : \A j \in m : i <= j].role
           IN  IF r \in {Undef, Null} THEN "user" ELSE r

RoleOp == "GET /users/role"

\* the record GET /users/role of application 1 inserts (line 129)
NewUserV1(email) == [uid |-> Undef, email |-> email, role |-> "user"]

\* GET /users/role, application 1 (lines 120-138): no gate; an e-mail without a
\* record gets one
GetRoleV1(email) ==
  /\ Counted
  /\ IF email = Undef
       THEN /\ resp' = NoHdr(RoleOp, 1, 400, BadId, 0)
            /\ UNCHANGED <<users, ids>>
     ELSE IF FindByEmail(users, email) = {}
       THEN /\ ids.users <= MaxDocs
            /\ users' = Put(users, ids.users, NewUserV1(email))
            /\ ids' = [ids EXCEPT !.users = @ + 1]
            /\ resp' = [NoHdr(RoleOp, 1, 200, BadId, NewUserV1(email).role)
                          EXCEPT !.data = email]
     ELSE /\ resp' = [NoHdr(RoleOp, 1, 200, BadId, RoleOf(users, email))
                        EXCEPT !.data = email]
          /\ UNCHANGED <<users, ids>>
  /\ UNCHANGED <<subscribers, contacts, blogPart>>

\* GET /users/role, application 2 (lines 566-584): behind the gate, reads only
GetRole(header, email) ==
  LET g == verifyFirebaseToken(2, header, production)
  IN  /\ Counted
      /\ IF ~g.ok
           THEN resp' = Answer(RoleOp, 2, g.status, BadId, header, g, 0)
         ELSE IF email = Undef
           THEN resp' = Answer(RoleOp, 2, 400, BadId, header, g, 0)
         ELSE resp' = [Answer(RoleOp, 2, 200, BadId, header, g, RoleOf(users, email))
                         EXCEPT !.data = email]
      /\ UNCHANGED <<users, subscribers, contacts, ids, blogPart>>

\* request bodies of PUT /users/:id, PATCH /users/:id/role and PATCH /role/:id
UserUpdates == {[email |-> "e1"], [role |-> "admin"], [role |-> Null]}

UserFields == {"uid", "email", "role"}

\* updateOne(.., {$set: body}) on a user document
SetUser(doc, body) ==
  [f \in UserFields |-> IF f \in DOMAIN body THEN body[f] ELSE doc[f]]

\* cleanUpdateData (lines 612-618): the body's keys whose value is not null
Clean(body) ==
  LET ks == {k \in DOMAIN body : body[k] # Null} IN [k \in ks |-> body[k]]

\* PUT /users/:id (lines 661-707)
PutUser(id, body) ==
  /\ Counted
  /\ IF id = BadId
       THEN /\ resp' = NoHdr("PUT /users/:id", 2, 400, id, 0)
            /\ UNCHANGED users
     ELSE IF id \notin DOMAIN users
       THEN /\ resp' = NoHdr("PUT /users/:id", 2, 404, id, 0)
            /\ UNCHANGED users
     ELSE /\ users' = [users EXCEPT ![id] = SetUser(@, body)]
          /\ resp' = NoHdr("PUT /users/:id", 2, 200, id, 0)
  /\ UNCHANGED <<subscribers, contacts, ids, blogPart>>

\* PATCH /users/:id/role (lines 586-658)
PatchUser(id, body) ==
  /\ Counted
  /\ IF id = BadId
       THEN /\ resp' = NoHdr("PATCH /users/:id/role", 2, 400, id, 0)
            /\ UNCHANGED users
     ELSE IF id \notin DOMAIN users
       THEN /\ resp' = NoHdr("PATCH /users/:id/role", 2, 404, id, 0)
            /\ UNCHANGED users
     ELSE /\ users' = [users EXCEPT ![id] = SetUser(@, Clean(body))]
          /\ resp' = NoHdr("PATCH /users/:id/role", 2, 200, id, 0)
  /\ UNCHANGED <<subscribers, contacts, ids, blogPart>>

\* PATCH /role/:id (lines 366-389 and 1048-1063, the same in both
\* applications): {$set: {role}} with the body's role, null when it has none
PatchRole(id, body) ==
  /\ Counted
  /\ IF id = BadId
       THEN /\ resp' = NoHdr("PATCH /role/:id", 2, 500, id, 0)
            /\ UNCHANGED users
     ELSE IF id \notin DOMAIN users
       THEN /\ resp' = NoHdr("PATCH /role/:id", 2, 404, id, 0)
            /\ UNCHANGED users
     ELSE /\ users' = [users EXCEPT ![id].role = Bson(Field(body, "role"))]
          /\ resp' = NoHdr("PATCH /role/:id", 2, 200, id, 0)
  /\ UNCHANGED <<subscribers, contacts, ids, blogPart>>

\* ------------------------------------------------- requests one at a time
Next ==
  \/ \E h \in Headers, b \in Bodies : PostBlog(h, b)
  \/ \E b \in Bodies : PostBlogV1(b)
  \/ \E id \in ReqIds, b \in Bodies : PatchBlogV1(id, b)
  \/ \E h \in Headers, id \in ReqIds, b \in Bodies : PatchBlog(h, id, b)
  \/ \E app \in Apps, h \in Headers, id \in ReqIds, b \in Bodies : PutBlog(app, h, id, b)
  \/ \E app \in Apps, h \in Headers, id \in ReqIds : DeleteBlog(app, h, id)

Spec == Init /\ [][Next]_vars

\* posts, field updates and likes; the two database calls of a like request
\* interleave with the other requests
NextLike ==
  \/ \E h \in Headers, b \in Bodies : PostBlog(h, b)
  \/ \E h \in Headers, id \in ReqIds, b \in Bodies : PatchBlog(h, id, b)
  \/ \E p \in Procs, id \in ReqIds, u \in LikeUsers : LikeRead(p, id, u)
  \/ \E p \in Procs : LikeWrite(p)

SpecLike == Init /\ [][NextLike]_vars

\* like requests whose database calls interleave
PlainBodies == {[title |-> "A"]}

NextLikeRace ==
  \/ \E b \in PlainBodies : PostBlogV1(b)
  \/ \E p \in Procs, id \in ReqIds, u \in LikeUsers : LikeRead(p, id, u)
  \/ \E p \in Procs : LikeWrite(p)

SpecLikeRace == Init /\ [][NextLikeRace]_vars

\* posts and their reviews, one request at a time
NextReview ==
  \/ \E b \in PlainBodies : PostBlogV1(b)
  \/ \E id \in ReqIds, r \in ReviewBodies : AddReview(id, r)
  \/ \E id \in ReqIds, r \in ReviewBodies : AddReviewV1(id, r)
  \/ \E id \in ReqIds, c \in CommentIds : RemoveReview(id, c)

SpecReview == Init /\ [][NextReview]_vars

\* the audit log and the requests on posts
NextAudit ==
  \/ \E h \in Headers, b \in PlainBodies : PostBlog(h, b)
  \/ \E b \in PlainBodies : PostBlogV1(b)
  \/ \E h \in Headers, id \in ReqIds, b \in PlainBodies : PatchBlog(h, id, b)
  \/ \E app \in Apps, h \in Headers, id \in ReqIds : DeleteBlog(app, h, id)
  \/ \E id \in ReqIds, r \in ReviewBodies : AddReview(id, r)
  \/ \E p \in Procs, id \in ReqIds, u \in LikeUsers : LikeRead(p, id, u)
  \/ \E p \in Procs : LikeWrite(p)
  \/ \E h \in Headers : GetActivities(h)

SpecAudit == Init /\ [][NextAudit]_vars

\* review requests whose database calls interleave; the posts are created
\* with one or two reviews
R1 == [rid |-> "r1", comment |-> "nice"]
R2 == [rid |-> "r2", comment |-> "fine"]
R3 == [rid |-> "r3", comment |-> "good"]
ReviewedBodies == {[title |-> "A", reviews |-> <<R1>>],
                   [title |-> "A", reviews |-> <<R1, R2>>]}

NextReviewRace ==
  \/ \E b \in ReviewedBodies : PostBlogV1(b)
  \/ \E id \in ReqIds, r \in {R2, R3} : AddReview(id, r)
  \/ \E p \in Procs, id \in ReqIds, c \in CommentIds : RemoveRead(p, id, c)
  \/ \E p \in Procs : RemoveWrite(p)

SpecReviewRace == Init /\ [][NextReviewRace]_vars

\* users, subscribers and contacts, one request at a time
NextAdmin ==
  \/ \E b \in UserBodies : PostUser(b)
  \/ \E e \in SubEmails \cup {Undef} : PostSubscriber(e)
  \/ \E e \in SubEmails \cup {Undef} : PostContact(e)
  \/ \E h \in Headers : GetSubscribers(h)
  \/ \E h \in Headers, id \in ReqDocIds : DeleteSubscriber(h, id)
  \/ \E h \in Headers : GetContacts(h)
  \/ \E id \in ReqDocIds : DeleteContact(id)

SpecAdmin == Init /\ [][NextAdmin]_vars

\* user records and role lookups, one request at a time
NextUsers ==
  \/ \E b \in UserBodies : PostUser(b)
  \/ \E e \in QueryEmails : GetRoleV1(e)
  \/ \E h \in Headers, e \in QueryEmails : GetRole(h, e)
  \/ \E id \in ReqDocIds, b \in UserUpdates : PutUser(id, b)
  \/ \E id \in ReqDocIds, b \in UserUpdates : PatchUser(id, b)
  \/ \E id \in ReqDocIds, b \in UserUpdates : PatchRole(id, b)

SpecUsers == Init /\ [][NextUsers]_vars

\* subscribe requests whose database calls interleave, and the admin's delete
NextSubscribe ==
  \/ \E b \in UserBodies : PostUser(b)
  \/ \E p \in Procs, e \in SubEmails \cup {Undef} : SubscribeRead(p, e)
  \/ \E p \in Procs : SubscribeWrite(p)
  \/ \E h \in Headers, id \in ReqDocIds : DeleteSubscriber(h, id)

SpecSubscribe == Init /\ [][NextSubscribe]_vars

\* ------------------------------------------------------------------ claims
Verified(header) == header # NoHeader /\ header.token \in ValidTokens
Placeholder(header) == header = NoHeader /\ ~production

UpdateOps == {"PATCH /blogs/:id", "PUT /blogs/:id"}

\* C4: an update of an existing post through PATCH or PUT /blogs/:id by a
\* caller whose e-mail differs from the post's author.email is answered 403 and
\* changes no field of the stored post (stated for the callers that have an
\* e-mail, the verified ones).
C4_NonAuthorUpdateForbidden ==
  [][\A id \in BlogIds :
       (/\ id \in DOMAIN blogs
        /\ resp'.op \in UpdateOps /\ resp'.id = id
        /\ resp'.gated /\ resp'.ran /\ resp'.user.email # Undef
        /\ resp'.user.email # blogs[id].author.email)
       => (resp'.status = 403 /\ blogs' = blogs)]_vars

\* C5: DELETE /blogs/:id by a caller whose e-mail is not the post's
\* author.email is answered 403 and the post is still stored afterwards
\* (stated for the callers that have an e-mail, the verified ones).
C5_NonAuthorDeleteForbidden ==
  [][\A id \in BlogIds :
       (/\ id \in DOMAIN blogs
        /\ resp'.op = "DELETE /blogs/:id" /\ resp'.id = id
        /\ resp'.ran /\ resp'.user.email # Undef
        /\ resp'.user.email # blogs[id].author.email)
       => (resp'.status = 403 /\ id \in DOMAIN blogs' /\ blogs'[id] = blogs[id])]_vars

\* C6: every post stored through POST /blogs was created by a request that
\* passed the Identity Gate, and its author is the {uid, email} of that
\* request's identity, whatever author the body supplied.
C6_AuthorForcedFromIdentity ==
  \A id \in DOMAIN origin :
    /\ origin[id].gated
    /\ origin[id].author = [uid   |-> Bson(origin[id].user.uid),
                            email |-> Bson(origin[id].user.email)]

\* C7: every step leaves author and createdAt of every post that stays stored
\* as they were, and a successful PATCH or PUT /blogs/:id also leaves the likes,
\* likedUsers and reviews of the post it updates as they were.
C7_UpdateKeepsProtectedFields ==
  [][\A id \in DOMAIN blogs \cap DOMAIN blogs' :
       /\ blogs'[id].author = blogs[id].author
       /\ blogs'[id].createdAt = blogs[id].createdAt
       /\ (resp'.op \in UpdateOps /\ resp'.id = id /\ resp'.status = 200)
            => /\ blogs'[id].likes = blogs[id].likes
               /\ blogs'[id].likedUsers = blogs[id].likedUsers
               /\ blogs'[id].reviews = blogs[id].reviews]_vars

\* C8: on a route behind the Identity Gate the handler runs only for a verified
\* credential (identity = the verified claims) or, outside production, for no
\* credential (identity = the placeholder with uid "devUser"); every other
\* request is answered 401 and the handler does not run.
C8_GateAdmitsOnlyVerifiedOrDevPlaceholder ==
  resp.gated =>
    /\ resp.ran =>
         \/ Verified(resp.header) /\ resp.user = verifyIdToken(resp.header.token)
         \/ Placeholder(resp.header) /\ resp.user.uid = "devUser"
    /\ ~(Verified(resp.header) \/ Placeholder(resp.header))
         => (resp.status = 401 /\ ~resp.ran)
    /\ resp.status = 401 <=> ~resp.ran

C8_Witness ==
  /\ resp.gated /\ resp.ran /\ resp.header = NoHeader
  /\ resp.user.uid = "devUser" /\ resp.status = 201

LikeOp == "POST /blogs/:id/like"
Occurrences(arr, x) == Cardinality({i \in DOMAIN arr : arr[i] = x})

\* C1: every stored post has likes = the number of entries of likedUsers.
C1_LikesEqualLikedUsers ==
  \A id \in DOMAIN blogs : blogs[id].likes = Len(blogs[id].likedUsers)

\* C2: a like request that finds its userId in the post's likedUsers is
\* answered 400 (never a success), leaves the post and every other post
\* unchanged, and has no update pending.
C2_RepeatedLikeRejected ==
  [][\A p \in Procs, id \in BlogIds, u \in LikeUsers :
       (/\ id \in DOMAIN blogs
        /\ includes(blogs[id].likedUsers, u)
        /\ LikeRead(p, id, u))
       => (/\ resp'.op = LikeOp /\ resp'.status = 400 /\ resp'.id = id
           /\ blogs' = blogs /\ calls' = calls)]_vars

C2_Witness ==
  /\ resp.op = LikeOp /\ resp.status = 400
  /\ resp.id \in DOMAIN blogs
  /\ blogs[resp.id].likes = 1
  /\ Len(blogs[resp.id].likedUsers) = 1

\* C3: once no like request is in flight, each userId occurs at most once in a
\* post's likedUsers, the likes counter is at most the number of users in
\* likedUsers, and at most one like request per post and userId was answered
\* with success.
C3_EachUserCountedOnce ==
  (\A p \in Procs : calls[p] = Idle) =>
    \A id \in DOMAIN blogs, u \in LikeUsers :
      /\ Occurrences(blogs[id].likedUsers, u) <= 1
      /\ blogs[id].likes <= Cardinality(Range(blogs[id].likedUsers))
      /\ likeOk[<<id, u>>] <= 1

AddOp == "POST /blogs/:id/reviews"

\* C10: when the request answered last was a successful AddReview on a stored
\* post, a RemoveReview naming the identity of the review just added succeeds
\* and leaves the post's reviews exactly as they were before the AddReview.
C10_AddThenRemoveRestores ==
  [][(/\ resp.op = AddOp /\ resp.status = 200
      /\ lastAdd.id \in DOMAIN blogs
      /\ RemoveReview(lastAdd.id, lastAdd.rid))
     => (/\ resp'.status = 200
         /\ blogs'[lastAdd.id].reviews = lastAdd.before)]_vars

AdminOps == {"GET /subscribers", "DELETE /subscribers/:id",
             "GET /contacts", "DELETE /contacts/:id"}

C11_NoReviewUpdateLost ==
  (\A p \in Procs : calls[p] = Idle)
    => \A id \in DOMAIN blogs : blogs[id].reviews = kept[id]

\* the CREATE activity of the post id: its blogId is id and its user is the
\* creator's uid and e-mail (an e-mail the creator does not have is not compared)
CreateActivityOf(id) ==
  \E i \in DOMAIN activities :
    /\ activities[i].type = "CREATE"
    /\ activities[i].blogId = id
    /\ activities[i].user.uid = origin[id].user.uid
    /\ origin[id].user.email # Undef
         => activities[i].user.email = origin[id].user.email

\* C12: every post a create request has stored has its CREATE activity in the
\* audit log, with the post's identity as blogId and the creator as user.
C12_EveryCreateLogged ==
  \A id \in DOMAIN origin : CreateActivityOf(id)

\* C13: the count a successful like returns is the stored likes of the post
\* right after that request's update.
C13_ReturnedCountIsStoredCount ==
  [][\A p \in Procs :
       (/\ calls[p].pc = "like" /\ calls'[p] = Idle
        /\ resp'.op = LikeOp /\ resp'.status = 200
        /\ resp'.id \in DOMAIN blogs')
       => resp'.ret = blogs'[resp'.id].likes]_vars

\* C14: POST /blogs/:id/reviews with a well-formed identity that no stored
\* post has is answered 404, one with a malformed identity 400, and neither
\* changes a stored post.
C14_AddReviewToMissingPostRefused ==
  [][(resp'.op = AddOp /\ reqs' = reqs + 1)
       => /\ resp'.id = BadId => (resp'.status = 400 /\ blogs' = blogs)
          /\ resp'.id \in BlogIds \ DOMAIN blogs
               => (resp'.status = 404 /\ blogs' = blogs)]_vars

\* C15: a role lookup answers "admin" only when a stored user with the queried
\* e-mail has role "admin", answers "user" for an e-mail that has no record, and
\* makes no e-mail resolve to "admin" that did not before.
C15_RoleLookup ==
  [][(resp'.op = RoleOp /\ reqs' = reqs + 1 /\ resp'.status = 200)
       => /\ resp'.ret = "admin"
               => \E i \in DOMAIN users :
                    users[i].email = resp'.data /\ users[i].role = "admin"
          /\ FindByEmail(users, resp'.data) = {} => resp'.ret = "user"
          /\ \A e \in QueryEmails \ {Undef} :
               RoleOf(users', e) = "admin" => RoleOf(users, e) = "admin"]_vars

\* a lookup has answered "admin", and one has created a record
C15_Witness ==
  /\ resp.op = RoleOp /\ resp.status = 200 /\ resp.ret = "admin"
  /\ \E i \in DOMAIN users : users[i] = NewUserV1("e2")

\* C16: no two stored users have the same e-mail.
C16_UserEmailsUnique ==
  \A i, j \in DOMAIN users : users[i].email = users[j].email => i = j

\* C17: no two stored subscribers have the same e-mail, however the subscribe
\* requests interleave.
C17_SubscriberEmailsUnique ==
  \A i, j \in DOMAIN subscribers :
    subscribers[i].email = subscribers[j].email => i = j

\* C18: the audit log only grows: every stored activity stays where it is
\* with its user, type, message, blogId and timestamp unchanged.
C18_AuditLogAppendOnly ==
  [][/\ Len(activities') >= Len(activities)
     /\ \A i \in DOMAIN activities : activities'[i] = activities[i]]_vars

\* two activities are stored, and the post of the first has been deleted
C18_Witness ==
  /\ Len(activities) = 2
  /\ activities[1].blogId \notin DOMAIN blogs

\* C19: PUT /blogs/:id by a caller whose identity has no e-mail is answered
\* 403 for every stored post, one without author e-mail included, and leaves
\* the post as it is.
C19_NoEmailNeverOwns ==
  [][\A id \in BlogIds :
       (/\ id \in DOMAIN blogs
        /\ resp'.op = "PUT /blogs/:id" /\ resp'.id = id /\ reqs' = reqs + 1
        /\ resp'.gated /\ resp'.ran /\ resp'.user.email = Undef)
       => (resp'.status = 403 /\ blogs' = blogs)]_vars
====
